---- MODULE Spec2Model ----
(***************************************************************************)
(* A model of hypervehicle's tessellator (parametricSurfce2stl), component *)
(* pipeline (Component.curve/rotate/reflect/surface/to_stl), fuselage     *)
(* construction (Fuselage.generate_patches), sensitivity study             *)
(* (SensitivityStudy.dGdP / compare_meshes), sensitivity reattachment      *)
(* (append_sensitivities_to_tri) and mass aggregation                      *)
(* (assess_inertial_properties).                                           *)
(*                                                                         *)
(* Numbers.  Parameter values r, s in [0,1] are held as numerators over    *)
(* 2*N, so the grid value i/N is 2*i and a cell midpoint is 2*i+1.  A      *)
(* surface returns integer coordinates; a stored vertex holds Quarter      *)
(* times the coordinate, so that 0.25 * (sum of four) is exact.            *)
(***************************************************************************)
EXTENDS Integers, Sequences, FiniteSets, TLC

VARIABLES
  \* ---- parametricSurfce2stl: arguments
  triangles_per_edge, mirror_y, re_evaluate_centroid, flip_faces, surf,
  \* ---- parametricSurfce2stl: locals
  tpc,        \* position: "start" | "vertices" | "faces" | "done" | "raised"
  ti, tj,     \* the loop counters i, j of the loop at tpc
  tr,         \* the local r, which the centroid code may overwrite
  vertices,   \* the vertex array; Empty marks a slot np.empty left unwritten
  faces,      \* the face list
  evaluated   \* history: parametric_surface has been called

VARIABLES
  \* ---- Component
  patches,      \* self.patches: the ordered dict, as a sequence of entries
  x_curv_func,  \* whether self.x_curv_func is set (not None)
  y_curv_func,  \* whether self.y_curv_func is set (not None)
  lastCall,     \* history: the last method called, with its arguments
  before,       \* history: self.patches when that call began
  calls,        \* history: the number of calls made
  surfaces,     \* self.surfaces: None, or the dict of the meshes by key
  mesh          \* self.mesh: None, or the data of the mesh to_stl saved

VARIABLES
  \* ---- SensitivityStudy.dGdP
  parameter_dict,     \* the ordered parameter dictionary: entries [name, value]
  nominal_meshes,     \* nominal_instance.meshes: entries [component, meshes]
  parameter_meshes,   \* parameter_instance.meshes of the current parameter
  spc,                \* position: "parameter" | "component" | "mesh" | "done" | "raised"
  sp, sc, six,        \* the current parameter, component and mesh (from 1)
  dP,                 \* the local dP
  sensitivities,      \* the local dict: entries [component, tables]
  self_sensitivities, \* self.sensitivities; None until the method returns
  csv_files,          \* the files compare_meshes has written
  mismatch            \* history: a perturbed vehicle differed from the nominal in
                      \* the meshes of a component or the faces of a mesh

sensVars == <<parameter_dict, nominal_meshes, parameter_meshes, spc, sp, sc, six, dP,
              sensitivities, self_sensitivities, csv_files, mismatch>>

VARIABLES
  \* ---- append_sensitivities_to_tri
  dp_files,          \* the sensitivity tables of the files named, in order
  sensitivity_name,  \* the argument: "None" or a name
  tri_lines,         \* the lines of the points text of the .tri file
  points_df,         \* the stored points
  dp_df,             \* the concatenated sensitivity data: [columns, rows]
  apc,               \* position: "parse" | "load" | "match" | "write" | "done" | "raised"
  ai,                \* the point being matched (from 1)
  data_str,          \* the lines built so far, each a formatted triple
  tri_written        \* the text of the DataArray written to the file, or NotWritten

triVars == <<dp_files, sensitivity_name, tri_lines, points_df, dp_df, apc, ai,
             data_str, tri_written>>

VARIABLES
  \* ---- assess_inertial_properties
  components,          \* the components dict: entries [type, mesh]
  component_densities, \* the density of each type
  ipc,                 \* position: "properties" | "cog" | "divide" | "inertia" | "done" | "raised"
  ik,                  \* the component of the loop at ipc (from 1)
  volumes, masses, cgs, inertias,   \* the dicts of the first loop
  total_mass, total_volume,
  composite_cog,       \* a fraction [num, den]; den = 0 is NaN or Inf
  composite_inertia,   \* a fraction [num, den]; den = 0 is NaN or Inf
  inertial_result      \* what the call returned, or NoResult

inertVars == <<components, component_densities, ipc, ik, volumes, masses, cgs, inertias,
               total_mass, total_volume, composite_cog, composite_inertia, inertial_result>>

VARIABLES
  \* ---- Fuselage.generate_patches (self.patches is the variable patches)
  params,      \* self.params, as far as generate_patches branches on it
  fpc,         \* position: "start" | "nose" | "body" | "tail" | "offset" | "done" | "raised"
  fuse_error   \* None, or the option and value the Exception names

fuseVars == <<params, fpc, fuse_error>>

tessVars == <<triangles_per_edge, mirror_y, re_evaluate_centroid, flip_faces,
              surf, tpc, ti, tj, tr, vertices, faces, evaluated>>

compVars == <<patches, x_curv_func, y_curv_func, lastCall, before, calls, surfaces, mesh>>

vars == <<tessVars, compVars, sensVars, triVars, inertVars, fuseVars>>

\* ------------------------------------------------------------------ bounds
MaxN == 2
\* the patches generate_patches leaves in a component
MaxPatches == 2
\* the calls of curve, rotate and reflect made on one component
MaxCalls == 3
\* the design parameters of a sensitivity study
MaxParams == 2
\* the components of a vehicle, the meshes of a component, the faces of a mesh
MaxComponents == 2
MaxMeshes == 2
\* the quad cells tessellated into one mesh
MaxCells == 2
\* the points stored in a .tri file and the sensitivity files given
MaxPoints == 3
MaxFiles == 2
\* the components handed to assess_inertial_properties
MaxBodies == 2

\* ------------------------------------------------------ program constants
\* 0.25 * (pos00 + pos10 + pos01 + pos11): vertices are stored times Quarter
Quarter == 4
\* perturbation: float = 20
DefaultPerturbation == 20
\* tolerance = 1e-5, in the coordinate unit of 5e-6
Tolerance == 2
\* abs(matched_data) < 1e-8, in the derivative unit of 5e-9
RoundOff == 2
\* {:.14e}: one digit before the point and 14 after it
SignificantDigits == 15
\* self.stl_resolution = 3
StlResolution == 3

\* Python's None, for an attribute that holds None or a collection
None == [none |-> TRUE]

\* ------------------------------------------------------------- surfaces
Surfaces == {"flat", "saddle", "skew", "pole"}

\* parametric_surface(r, s): r, s are numerators over 2*N
Surface(id, r, s) ==
  CASE id = "flat"   -> <<r, s, 0>>
    [] id = "saddle" -> <<r, s + 1, r * s>>
    [] id = "skew"   -> <<r + s * s, 2 * s - r, r * r + 1>>
    [] id = "pole"   -> <<r, s, r + s>>

\* parametric_surface(r, s) raises: the surface "pole" is not defined at
\* (r, s) = (0.5, 0), which is (N, 0) in numerators over 2*N
Raises(id, N, r, s) == id = "pole" /\ r = N /\ s = 0

\* triangles_per_edge = None
NoResolution == -1

\* A bug the check of line 29 could have: it never fires
ResolutionMissingNever(n) == FALSE

\* triangles_per_edge is None
ResolutionMissing(n) == n = NoResolution

\* np.empty: a slot that has not been written
Empty == <<>>

\* np.linspace(0.0, 1.0, N + 1)[i], as a numerator over 2*N
Linspace(i) == 2 * i

\* r_list[i] raises IndexError when i is outside the list
InList(N, i) == i >= 0 /\ i <= N

VertexCount(N) == (N + 1) * (N + 1) + N * N

\* index = (triangles_per_edge + 1) ** 2
CentroidBase(N) == (N + 1) * (N + 1)

YMult(m) == IF m THEN -1 ELSE 1

\* np.array([pos.x, y_mult * pos.y, pos.z]) of a corner
CornerVertex(pos, m) == <<Quarter * pos[1], YMult(m) * Quarter * pos[2], Quarter * pos[3]>>

\* where the corner of grid point (i, j) is stored
CornerIndex(N, i, j) == j * (N + 1) + i

\* where the centroid of cell (i, j) is stored
CentroidIndex(N, i, j) == CentroidBase(N) + (j * N + i)

\* np.array([pos_x, y_mult * pos_y, pos_z]) of a centroid; q is the factor
\* still to be applied to reach the stored scale
CentroidVertex(p, m, q) == <<q * p[1], YMult(m) * q * p[2], q * p[3]>>

\* A bug the bilinear centroid could have: the top right corner taken
\* from the row below
BilinearSumRowSlip(id, i, j) ==
  LET pos00 == Surface(id, Linspace(i), Linspace(j))
      pos10 == Surface(id, Linspace(i + 1), Linspace(j))
      pos01 == Surface(id, Linspace(i), Linspace(j + 1))
      pos11 == Surface(id, Linspace(i + 1), Linspace(j))
  IN  <<pos00[1] + pos10[1] + pos01[1] + pos11[1],
        pos00[2] + pos10[2] + pos01[2] + pos11[2],
        pos00[3] + pos10[3] + pos01[3] + pos11[3]>>

\* pos00 + pos10 + pos01 + pos11 of cell (i, j): Quarter times
\* (pos_x, pos_y, pos_z) of the bilinear branch
BilinearSum(id, i, j) ==
  LET pos00 == Surface(id, Linspace(i), Linspace(j))
      pos10 == Surface(id, Linspace(i + 1), Linspace(j))
      pos01 == Surface(id, Linspace(i), Linspace(j + 1))
      pos11 == Surface(id, Linspace(i + 1), Linspace(j + 1))
  IN  <<pos00[1] + pos10[1] + pos01[1] + pos11[1],
        pos00[2] + pos10[2] + pos01[2] + pos11[2],
        pos00[3] + pos10[3] + pos01[3] + pos11[3]>>

\* The try block of one loop iteration, entered with the local r = rin.
\* The result is the local r and the vertex array when the block is left,
\* by its end or by the except clause (an IndexError of r_list[i + 1],
\* s_list[j + 1] or of the assignment to vertices, or an exception of
\* parametric_surface).
TryCentroid(N, m, exact, id, i, j, rin, verts) ==
  IF exact
  THEN IF ~InList(N, i + 1)
       THEN [r |-> rin, verts |-> verts]
       ELSE LET r1 == (Linspace(i) + Linspace(i + 1)) \div 2   \* r = 0.5 * (r_list[i] + r_list[i + 1])
                r2 == (Linspace(i) + Linspace(i + 1)) \div 2   \* r = 0.5 * (s_list[i] + s_list[i + 1])
                pos == Surface(id, r2, Linspace(j))            \* parametric_surface(r, s)
                k == CentroidIndex(N, i, j)
            IN  IF Raises(id, N, r2, Linspace(j)) \/ k >= VertexCount(N)
                THEN [r |-> r2, verts |-> verts]
                ELSE [r |-> r2,
                      verts |-> [verts EXCEPT ![k] = CentroidVertex(pos, m, Quarter)]]
  ELSE IF ~InList(N, i + 1) \/ ~InList(N, j + 1)
       THEN [r |-> rin, verts |-> verts]
       ELSE LET k == CentroidIndex(N, i, j)
            IN  IF \/ Raises(id, N, Linspace(i), Linspace(j))
                   \/ Raises(id, N, Linspace(i + 1), Linspace(j))
                   \/ Raises(id, N, Linspace(i), Linspace(j + 1))
                   \/ Raises(id, N, Linspace(i + 1), Linspace(j + 1))
                   \/ k >= VertexCount(N)
                THEN [r |-> rin, verts |-> verts]
                ELSE [r |-> rin,
                      verts |-> [verts EXCEPT ![k] =
                                   CentroidVertex(BilinearSum(id, i, j), m, 1)]]

\* Bugs the face fan could have: a plain diagonal split; the centroid of the
\* transposed cell; the flags ignored
CellFacesDiagonal(N, i, j, flip) ==
  LET p00 == j * (N + 1) + i
      p10 == j * (N + 1) + i + 1
      p01 == (j + 1) * (N + 1) + i
      p11 == (j + 1) * (N + 1) + i + 1
  IN  IF flip
      THEN << <<p00, p11, p10>>, <<p00, p01, p11>> >>
      ELSE << <<p00, p10, p11>>, <<p00, p11, p01>> >>

CellFacesTransposed(N, i, j, flip) ==
  LET p00 == j * (N + 1) + i
      p10 == j * (N + 1) + i + 1
      p01 == (j + 1) * (N + 1) + i
      p11 == (j + 1) * (N + 1) + i + 1
      pzz == CentroidBase(N) + (i * N + j)
  IN  IF flip
      THEN << <<p00, pzz, p10>>, <<p10, pzz, p11>>, <<p11, pzz, p01>>, <<p01, pzz, p00>> >>
      ELSE << <<p00, p10, pzz>>, <<p10, p11, pzz>>, <<p11, p01, pzz>>, <<p01, p00, pzz>> >>

CellFacesNoFlip(N, i, j, flip) ==
  LET p00 == j * (N + 1) + i
      p10 == j * (N + 1) + i + 1
      p01 == (j + 1) * (N + 1) + i
      p11 == (j + 1) * (N + 1) + i + 1
      pzz == CentroidBase(N) + (j * N + i)
  IN  << <<p00, p10, pzz>>, <<p10, p11, pzz>>, <<p11, p01, pzz>>, <<p01, p00, pzz>> >>

\* The four faces of cell (i, j)
CellFaces(N, i, j, flip) ==
  LET p00 == j * (N + 1) + i
      p10 == j * (N + 1) + i + 1
      p01 == (j + 1) * (N + 1) + i
      p11 == (j + 1) * (N + 1) + i + 1
      pzz == CentroidBase(N) + (j * N + i)
  IN  IF flip
      THEN << <<p00, pzz, p10>>, <<p10, pzz, p11>>, <<p11, pzz, p01>>, <<p01, pzz, p00>> >>
      ELSE << <<p00, p10, pzz>>, <<p10, p11, pzz>>, <<p11, p01, pzz>>, <<p01, p00, pzz>> >>

\* ------------------------------------------------------------ Component
\* A patch is a base surface (numbered as generate_patches made it) under a
\* stack of decorators, innermost first.  A key is a base name followed by
\* some number of "_mirrored" suffixes.
Axes == {"y", "z"}

BasePatch(k) == [base |-> k, decs |-> <<>>]
BaseKey(k) == [name |-> k, mirrored |-> 0]

CurvedPatch(patch, direction) == [patch EXCEPT !.decs = Append(@, <<"Curved", direction>>)]
RotatedPatch(patch, angle, axis) == [patch EXCEPT !.decs = Append(@, <<"Rotated", axis, angle>>)]
MirroredPatch(patch, axis) == [patch EXCEPT !.decs = Append(@, <<"Mirrored", axis>>)]

\* f"{key}_mirrored"
MirroredKey(key) == [key EXCEPT !.mirrored = @ + 1]

\* d[key] = patch on a dict kept as a sequence of entries in insertion order:
\* an existing key keeps its place and takes the new value
DictSet(d, key, patch) ==
  IF \E n \in 1..Len(d) : d[n].key = key
  THEN [n \in 1..Len(d) |-> IF d[n].key = key THEN [key |-> key, patch |-> patch] ELSE d[n]]
  ELSE Append(d, [key |-> key, patch |-> patch])

\* for key, patch in src.items(): d[key] = patch, from entry n on
RECURSIVE DictUpdateFrom(_, _, _)
DictUpdateFrom(d, src, n) ==
  IF n > Len(src) THEN d
  ELSE DictUpdateFrom(DictSet(d, src[n].key, src[n].patch), src, n + 1)

\* Component.curve (lines 111-136)
CurvePatches(ps, xf, yf) ==
  LET px == IF xf
            THEN [n \in 1..Len(ps) |-> [key |-> ps[n].key, patch |-> CurvedPatch(ps[n].patch, "x")]]
            ELSE ps
  IN  IF yf
      THEN [n \in 1..Len(px) |-> [key |-> px[n].key, patch |-> CurvedPatch(px[n].patch, "y")]]
      ELSE px

\* Component.rotate (lines 138-140)
RotatePatches(ps, angle, axis) ==
  [n \in 1..Len(ps) |-> [key |-> ps[n].key, patch |-> RotatedPatch(ps[n].patch, angle, axis)]]

\* mirrored_patches of Component.reflect (lines 150-152)
RECURSIVE MirroredPatches(_, _, _, _)
MirroredPatches(acc, ps, axis, n) ==
  IF n > Len(ps) THEN acc
  ELSE MirroredPatches(DictSet(acc, MirroredKey(ps[n].key), MirroredPatch(ps[n].patch, axis)),
                       ps, axis, n + 1)

\* A bug reflect could have: the mirrored patches appended whatever append is
ReflectPatchesAlwaysAppend(ps, axis, append) ==
  DictUpdateFrom(ps, MirroredPatches(<<>>, ps, axis, 1), 1)

\* Component.reflect (lines 142-160)
ReflectPatches(ps, axis, append) ==
  LET mirrored_patches == MirroredPatches(<<>>, ps, axis, 1)
  IN  IF append
      THEN DictUpdateFrom(ps, mirrored_patches, 1)
      ELSE mirrored_patches

\* What parametricSurfce2stl(patch, self.stl_resolution, flip_faces=flip)
\* returns, as the arguments of the call: the mesh is a function of them
StlMesh(patch, flip) ==
  [parametric_surface |-> patch, triangles_per_edge |-> StlResolution, flip_faces |-> flip]

\* key.split("_")[-1] == "mirrored"
EndsMirrored(key) == key.mirrored >= 1

\* Component.surface (lines 170-179): the new self.surfaces
Surfaced(ps) ==
  [n \in 1..Len(ps) |-> [key |-> ps[n].key,
                         mesh |-> StlMesh(ps[n].patch, EndsMirrored(ps[n].key))]]

\* np.concatenate([s[1].data for s in self.surfaces.items()]): one block of
\* faces per surface, in the order of the dict
Concatenate(ss) == [n \in 1..Len(ss) |-> ss[n].mesh]

\* Component.__init__ followed by generate_patches
CompInit ==
  /\ \E n \in 0..MaxPatches :
       patches = [k \in 1..n |-> [key |-> BaseKey(k), patch |-> BasePatch(k)]]
  /\ x_curv_func \in BOOLEAN
  /\ y_curv_func \in BOOLEAN
  /\ lastCall = [op |-> "init"]
  /\ before = <<>>
  /\ calls = 0
  /\ surfaces = None
  /\ mesh = None

curve ==
  /\ calls < MaxCalls
  /\ patches' = CurvePatches(patches, x_curv_func, y_curv_func)
  /\ lastCall' = [op |-> "curve"]
  /\ before' = patches
  /\ calls' = calls + 1
  /\ UNCHANGED <<x_curv_func, y_curv_func, surfaces, mesh>>
  /\ UNCHANGED <<tessVars, sensVars, triVars, inertVars, fuseVars>>

rotate ==
  /\ calls < MaxCalls
  /\ \E axis \in Axes :
       /\ patches' = RotatePatches(patches, 90, axis)
       /\ lastCall' = [op |-> "rotate", axis |-> axis]
  /\ before' = patches
  /\ calls' = calls + 1
  /\ UNCHANGED <<x_curv_func, y_curv_func, surfaces, mesh>>
  /\ UNCHANGED <<tessVars, sensVars, triVars, inertVars, fuseVars>>

reflect ==
  /\ calls < MaxCalls
  /\ \E axis \in Axes, append \in BOOLEAN :
       /\ patches' = ReflectPatches(patches, axis, append)
       /\ lastCall' = [op |-> "reflect", axis |-> axis, append |-> append]
  /\ before' = patches
  /\ calls' = calls + 1
  /\ UNCHANGED <<x_curv_func, y_curv_func, surfaces, mesh>>
  /\ UNCHANGED <<tessVars, sensVars, triVars, inertVars, fuseVars>>

surface ==
  /\ calls < MaxCalls
  /\ surfaces' = [none |-> FALSE, dict |-> Surfaced(patches)]
  /\ lastCall' = [op |-> "surface"]
  /\ before' = patches
  /\ calls' = calls + 1
  /\ UNCHANGED <<patches, x_curv_func, y_curv_func, mesh>>
  /\ UNCHANGED <<tessVars, sensVars, triVars, inertVars, fuseVars>>

\* Component.to_stl (lines 185-204); np.concatenate of an empty list raises
to_stl ==
  /\ calls < MaxCalls
  /\ LET ss == IF surfaces.none THEN Surfaced(patches) ELSE surfaces.dict
     IN  /\ surfaces' = [none |-> FALSE, dict |-> ss]
         /\ IF ss = <<>>
            THEN /\ lastCall' = [op |-> "to_stl", raised |-> TRUE]
                 /\ UNCHANGED mesh
            ELSE /\ lastCall' = [op |-> "to_stl", raised |-> FALSE]
                 /\ mesh' = [none |-> FALSE, data |-> Concatenate(ss)]
  /\ before' = patches
  /\ calls' = calls + 1
  /\ UNCHANGED <<patches, x_curv_func, y_curv_func>>
  /\ UNCHANGED <<tessVars, sensVars, triVars, inertVars, fuseVars>>

CompNext == curve \/ rotate \/ reflect \/ surface \/ to_stl

\* the component not in use
CompIdle ==
  /\ patches = <<>>
  /\ x_curv_func = FALSE
  /\ y_curv_func = FALSE
  /\ lastCall = [op |-> "idle"]
  /\ before = <<>>
  /\ calls = 0
  /\ surfaces = None
  /\ mesh = None

\* the tessellator not in use
TessIdle ==
  /\ triangles_per_edge = 1
  /\ mirror_y = FALSE
  /\ re_evaluate_centroid = FALSE
  /\ flip_faces = FALSE
  /\ surf = "flat"
  /\ tpc = "idle"
  /\ ti = 0
  /\ tj = 0
  /\ tr = 0
  /\ vertices = <<>>
  /\ faces = <<>>
  /\ evaluated = FALSE

\* ------------------------------------------------------ SensitivityStudy
\* A mesh is its vectors array, one value per face (the value stands for
\* the face's 3 x 3 block of coordinates).  self.sensitivities is None
\* until dGdP has returned.

\* a mesh is made of the four faces of each of its quad cells
FacesOf(cells) == 4 * cells

\* the vehicle the constructor builds from a parameter set: nc components
\* of nm meshes of nf faces; shift is what the perturbed parameter adds
VehicleMeshes(nc, nm, nf, shift) ==
  [c \in 1..nc |->
     [component |-> c,
      meshes |-> [i \in 1..nm |-> [k \in 1..nf |-> 10 * i + k + shift]]]]

\* The ways a perturbed vehicle may differ in shape from the nominal one
Variations(nominal) ==
  {[kind |-> "same"]}
    \cup [kind : {"fewer", "more", "missing"}, c : 1..Len(nominal)]
    \cup [kind : {"faces"}, c : 1..Len(nominal), nf : {FacesOf(n) : n \in 1..MaxCells}]

\* parameter_instance.meshes for a variation v of the nominal vehicle
PerturbedMeshes(nominal, v, shift) ==
  LET nc == Len(nominal)
      nm == Len(nominal[1].meshes)
      nf == Len(nominal[1].meshes[1])
      same == VehicleMeshes(nc, nm, nf, shift)
  IN  CASE v.kind = "same" -> same
        [] v.kind = "fewer" ->
             [same EXCEPT ![v.c].meshes = SubSeq(@, 1, nm - 1)]
        [] v.kind = "more" ->
             [same EXCEPT ![v.c].meshes = Append(@, [k \in 1..nf |-> 10 * (nm + 1) + k + shift])]
        [] v.kind = "missing" ->
             [c \in 1..(nc - 1) |-> IF c < v.c THEN same[c] ELSE same[c + 1]]
        [] v.kind = "faces" ->
             [same EXCEPT ![v.c].meshes[1] = [k \in 1..v.nf |-> 10 + k + shift]]

\* whether a perturbed vehicle has, for some component of the nominal one,
\* another number of meshes or a mesh of another face count
Mismatched(nominal, perturbed) ==
  \E n \in 1..Len(nominal) :
    \/ ~\E m \in 1..Len(perturbed) : perturbed[m].component = nominal[n].component
    \/ \E m \in 1..Len(perturbed) :
         /\ perturbed[m].component = nominal[n].component
         /\ \/ Len(perturbed[m].meshes) # Len(nominal[n].meshes)
            \/ \E i \in 1..Len(nominal[n].meshes) :
                 /\ i <= Len(perturbed[m].meshes)
                 /\ Len(perturbed[m].meshes[i]) # Len(nominal[n].meshes[i])

\* numpy broadcasting of two leading dimensions: they are compatible when
\* equal or when one of them is 1; -1 stands for the ValueError
BroadcastDim(a, b) ==
  IF a = b THEN a
  ELSE IF a = 1 THEN b
  ELSE IF b = 1 THEN a
  ELSE -1

\* df[~df.duplicated()]: the rows without the repeats of an earlier row
RECURSIVE DropDuplicates(_)
DropDuplicates(rows) ==
  IF rows = <<>> THEN <<>>
  ELSE LET init == SubSeq(rows, 1, Len(rows) - 1)
           last == rows[Len(rows)]
       IN  IF \E n \in 1..Len(init) : init[n] = last
           THEN DropDuplicates(init)
           ELSE Append(DropDuplicates(init), last)

\* SensitivityStudy.compare_meshes (lines 348-383): [raised |-> TRUE] or the
\* DataFrame.  A row holds the reference value, the difference and the
\* difference over dP (kept as the pair of numerator and denominator).
compare_meshes(mesh1, mesh2, dp, component, parameter_name) ==
  LET n == BroadcastDim(Len(mesh2), Len(mesh1))          \* diff = mesh2.vectors - mesh1.vectors
  IN  IF n = -1 THEN [raised |-> TRUE]
      ELSE IF Len(mesh1) # n THEN [raised |-> TRUE]      \* mesh1.vectors.reshape(...)
      ELSE LET diff == [k \in 1..n |->
                          (IF Len(mesh2) = 1 THEN mesh2[1] ELSE mesh2[k])
                            - (IF Len(mesh1) = 1 THEN mesh1[1] ELSE mesh1[k])]
               rows == [k \in 1..n |-> [x |-> mesh1[k], dx |-> diff[k], dxdP |-> <<diff[k], dp>>]]
           IN  [raised |-> FALSE,
                component |-> component,
                parameter |-> parameter_name,
                faces |-> <<Len(mesh1), Len(mesh2)>>,
                rows |-> DropDuplicates(rows)]

\* d[component] = value on the dict of sensitivities
SensSet(d, component, value) ==
  IF \E n \in 1..Len(d) : d[n].component = component
  THEN [n \in 1..Len(d) |->
          IF d[n].component = component
          THEN [component |-> component, tables |-> value] ELSE d[n]]
  ELSE Append(d, [component |-> component, tables |-> value])

SensGet(d, component) ==
  d[CHOOSE n \in 1..Len(d) : d[n].component = component].tables

\* sensitivities[component] = [] (line 297)
ComponentList(d, component) == SensSet(d, component, <<>>)

\* dGdP up to the loop over the parameters (lines 258-276)
SensInit ==
  /\ \E np \in 1..MaxParams :
       parameter_dict = [n \in 1..np |-> [name |-> n, value |-> 5 * n]]
  /\ \E nc \in 1..MaxComponents, nm \in 1..MaxMeshes, cells \in 1..MaxCells :
       nominal_meshes = VehicleMeshes(nc, nm, FacesOf(cells), 0)
  /\ parameter_meshes = <<>>
  /\ spc = "parameter"
  /\ sp = 1
  /\ sc = 1
  /\ six = 1
  /\ dP = 0
  /\ sensitivities = <<>>
  /\ self_sensitivities = None
  /\ csv_files = {}
  /\ mismatch = FALSE

\* The head of one parameter iteration (lines 277-293)
PerturbStep ==
  /\ spc = "parameter"
  /\ sp <= Len(parameter_dict)
  /\ LET value == parameter_dict[sp].value
         adjusted == (value * (100 + DefaultPerturbation)) \div 100
     IN  /\ dP' = adjusted - value
         /\ \E v \in Variations(nominal_meshes) :
              /\ parameter_meshes' = PerturbedMeshes(nominal_meshes, v, dP')
              /\ mismatch' = (mismatch \/ Mismatched(nominal_meshes, parameter_meshes'))
  /\ spc' = "component"
  /\ sc' = 1
  /\ UNCHANGED <<parameter_dict, nominal_meshes, sp, six, sensitivities,
                 self_sensitivities, csv_files>>
  /\ UNCHANGED <<tessVars, compVars, triVars, inertVars, fuseVars>>

\* The head of one component iteration (lines 296-297)
ComponentStep ==
  /\ spc = "component"
  /\ IF sc <= Len(nominal_meshes)
     THEN /\ sensitivities' = ComponentList(sensitivities, nominal_meshes[sc].component)
          /\ six' = 1
          /\ spc' = "mesh"
          /\ UNCHANGED sp
     ELSE /\ sp' = sp + 1
          /\ spc' = "parameter"
          /\ UNCHANGED <<sensitivities, six>>
  /\ UNCHANGED <<parameter_dict, nominal_meshes, parameter_meshes, sc, dP,
                 self_sensitivities, csv_files, mismatch>>
  /\ UNCHANGED <<tessVars, compVars, triVars, inertVars, fuseVars>>

\* One mesh iteration (lines 298-311)
MeshStep ==
  /\ spc = "mesh"
  /\ LET component == nominal_meshes[sc].component
         meshes == nominal_meshes[sc].meshes
     IN  IF six > Len(meshes)
         THEN /\ sc' = sc + 1
              /\ spc' = "component"
              /\ UNCHANGED <<six, sensitivities, csv_files>>
         ELSE IF ~\E m \in 1..Len(parameter_meshes) :
                    parameter_meshes[m].component = component
         THEN /\ spc' = "raised"                          \* KeyError
              /\ UNCHANGED <<sc, six, sensitivities, csv_files>>
         ELSE LET pm == parameter_meshes[CHOOSE m \in 1..Len(parameter_meshes) :
                                           parameter_meshes[m].component = component].meshes
              IN  IF six > Len(pm)
                  THEN /\ spc' = "raised"                 \* IndexError
                       /\ UNCHANGED <<sc, six, sensitivities, csv_files>>
                  ELSE LET name == <<component, six - 1>>  \* f"{component}_{ix}"
                           df == compare_meshes(meshes[six], pm[six], dP, name,
                                                parameter_dict[sp].name)
                       IN  IF df.raised
                           THEN /\ spc' = "raised"
                                /\ UNCHANGED <<sc, six, sensitivities, csv_files>>
                           ELSE /\ csv_files' = csv_files \cup {<<name, parameter_dict[sp].name>>}
                                /\ sensitivities' =
                                     SensSet(sensitivities, component,
                                             Append(SensGet(sensitivities, component), df))
                                /\ six' = six + 1
                                /\ UNCHANGED <<sc, spc>>
  /\ UNCHANGED <<parameter_dict, nominal_meshes, parameter_meshes, sp, dP,
                 self_sensitivities, mismatch>>
  /\ UNCHANGED <<tessVars, compVars, triVars, inertVars, fuseVars>>

\* self.sensitivities = sensitivities; return sensitivities (lines 316-320)
SensReturn ==
  /\ spc = "parameter"
  /\ sp > Len(parameter_dict)
  /\ self_sensitivities' = [none |-> FALSE, dict |-> sensitivities]
  /\ spc' = "done"
  /\ UNCHANGED <<parameter_dict, nominal_meshes, parameter_meshes, sp, sc, six, dP,
                 sensitivities, csv_files, mismatch>>
  /\ UNCHANGED <<tessVars, compVars, triVars, inertVars, fuseVars>>

SensNext == PerturbStep \/ ComponentStep \/ MeshStep \/ SensReturn

\* dGdP not called
SensIdle ==
  /\ parameter_dict = <<>>
  /\ nominal_meshes = <<>>
  /\ parameter_meshes = <<>>
  /\ spc = "idle"
  /\ sp = 1
  /\ sc = 1
  /\ six = 1
  /\ dP = 0
  /\ sensitivities = <<>>
  /\ self_sensitivities = None
  /\ csv_files = {}
  /\ mismatch = FALSE

\* ------------------------------------------- append_sensitivities_to_tri
\* Coordinates are whole multiples of 5e-6 and derivatives whole multiples
\* of 5e-9, so the tolerance 1e-5 and the round-off 1e-8 are both 2 units.
Abs(v) == IF v < 0 THEN -v ELSE v

Row(x, y, z, dx, dy, dz) == [x |-> x, y |-> y, z |-> z, dxdP |-> dx, dydP |-> dy, dzdP |-> dz]

\* The sensitivity files there are to name: csv tables as compare_meshes
\* writes them.  File 2 has a row within the tolerance of a row of file 1,
\* file 1 has derivatives below the round-off, file 3 differs from a row
\* of file 1 in z alone, file 4 has the header line only.
SensitivityFile(f) ==
  CASE f = 1 -> << Row(0, 0, 0, 4, 0, -6), Row(10, 0, 0, 1, -1, 8) >>
    [] f = 2 -> << Row(1, -1, 0, 7, 7, 7), Row(0, 2, 1, -2, 3, 40) >>
    [] f = 3 -> << Row(10, 0, 3, 9, -9, 9) >>
    [] f = 4 -> << >>

\* The points there are to store
StoredPoints == { <<0, 0, 0>>, <<10, 0, 0>>, <<10, 0, 3>>, <<20, 5, 5>> }

\* a blank line of the points text
Blank == <<>>

\* pd.DataFrame(points_data_list, columns=["x", "y", "z"]).dropna()
RECURSIVE DropNa(_)
DropNa(lines) ==
  IF lines = <<>> THEN <<>>
  ELSE IF lines[1] = Blank THEN DropNa(Tail(lines))
  ELSE <<lines[1]>> \o DropNa(Tail(lines))

\* dp_df = pd.concat([dp_df, df]) over the files; pd.DataFrame() has no columns
RECURSIVE Concat(_, _)
Concat(files, n) ==
  IF n = 0 THEN [columns |-> FALSE, rows |-> <<>>]
  ELSE [columns |-> TRUE, rows |-> Concat(files, n - 1).rows \o files[n]]

\* A bug the match could have: x alone compared
MatchMaskXOnly(point, rows) ==
  [n \in 1..Len(rows) |-> Abs(point[1] - rows[n].x) < Tolerance]

\* match = match_x & match_y & match_z (lines 433-438)
MatchMask(point, rows) ==
  [n \in 1..Len(rows) |->
     /\ Abs(point[1] - rows[n].x) < Tolerance
     /\ Abs(point[2] - rows[n].y) < Tolerance
     /\ Abs(point[3] - rows[n].z) < Tolerance]

\* dp_df[match]: the rows the mask keeps, in order
RECURSIVE Masked(_, _, _)
Masked(rows, mask, n) ==
  IF n > Len(rows) THEN <<>>
  ELSE (IF mask[n] THEN <<rows[n]>> ELSE <<>>) \o Masked(rows, mask, n + 1)

\* matched_data[abs(matched_data) < 1e-8] = 0
RoundSmall(v) == IF Abs(v) < RoundOff THEN 0 ELSE v

\* the number of decimal digits of a whole number
RECURSIVE Digits(_)
Digits(v) == IF Abs(v) < 10 THEN 1 ELSE 1 + Digits(Abs(v) \div 10)

RECURSIVE Pow10(_)
Pow10(n) == IF n = 0 THEN 1 ELSE 10 * Pow10(n - 1)

\* f"{v:.14e}": v to SignificantDigits significant digits
FormatE(v) ==
  IF Digits(v) <= SignificantDigits THEN v
  ELSE LET q == Pow10(Digits(v) - SignificantDigits)
           a == ((Abs(v) + (q \div 2)) \div q) * q
       IN  IF v < 0 THEN -a ELSE a

\* The body of the try of one point (lines 439-456): the line of the point
MatchedLine(point, rows) ==
  LET hits == Masked(rows, MatchMask(point, rows), 1)
  IN  IF hits = <<>>
      THEN <<FormatE(0), FormatE(0), FormatE(0)>>          \* IndexError of iloc[0]
      ELSE <<FormatE(RoundSmall(hits[1].dxdP)),
             FormatE(RoundSmall(hits[1].dydP)),
             FormatE(RoundSmall(hits[1].dzdP))>>

NotWritten == <<"not written">>

TriInit ==
  /\ \E n \in 0..MaxFiles :
       \E names \in [1..n -> 1..4] : dp_files = [k \in 1..n |-> SensitivityFile(names[k])]
  /\ sensitivity_name \in {"None", "given"}
  /\ \E n \in 0..MaxPoints :
       \E pts \in [1..n -> StoredPoints] : tri_lines = <<Blank>> \o pts
  /\ points_df = <<>>
  /\ dp_df = [columns |-> FALSE, rows |-> <<>>]
  /\ apc = "parse"
  /\ ai = 1
  /\ data_str = <<>>
  /\ tri_written = NotWritten

\* Parse the .tri file (lines 410-422)
TriParse ==
  /\ apc = "parse"
  /\ points_df' = DropNa(tri_lines)
  /\ apc' = "load"
  /\ UNCHANGED <<dp_files, sensitivity_name, tri_lines, dp_df, ai, data_str, tri_written>>
  /\ UNCHANGED <<tessVars, compVars, sensVars, inertVars, fuseVars>>

\* Load and concatenate the sensitivity data (lines 424-431)
TriLoad ==
  /\ apc = "load"
  /\ dp_df' = Concat(dp_files, Len(dp_files))
  /\ data_str' = <<>>
  /\ ai' = 1
  /\ apc' = "match"
  /\ UNCHANGED <<dp_files, sensitivity_name, tri_lines, points_df, tri_written>>
  /\ UNCHANGED <<tessVars, compVars, sensVars, inertVars, fuseVars>>

\* One iteration of the loop over the points (lines 432-456)
TriMatch ==
  /\ apc = "match"
  /\ ai <= Len(points_df)
  /\ IF ~dp_df.columns
     THEN /\ apc' = "raised"                              \* KeyError of dp_df["x"]
          /\ UNCHANGED <<ai, data_str>>
     ELSE /\ data_str' = Append(data_str, MatchedLine(points_df[ai], dp_df.rows))
          /\ ai' = ai + 1
          /\ UNCHANGED apc
  /\ UNCHANGED <<dp_files, sensitivity_name, tri_lines, points_df, dp_df, tri_written>>
  /\ UNCHANGED <<tessVars, compVars, sensVars, inertVars, fuseVars>>

\* Name the sensitivity and write the file (lines 458-477)
TriWrite ==
  /\ apc = "match"
  /\ ai > Len(points_df)
  /\ IF sensitivity_name = "None" /\ dp_files = <<>>
     THEN /\ apc' = "raised"                              \* IndexError of dp_files[0]
          /\ UNCHANGED tri_written
     ELSE /\ tri_written' = data_str
          /\ apc' = "done"
  /\ UNCHANGED <<dp_files, sensitivity_name, tri_lines, points_df, dp_df, ai, data_str>>
  /\ UNCHANGED <<tessVars, compVars, sensVars, inertVars, fuseVars>>

TriNext == TriParse \/ TriLoad \/ TriMatch \/ TriWrite

\* append_sensitivities_to_tri not called
TriIdle ==
  /\ dp_files = <<>>
  /\ sensitivity_name = "None"
  /\ tri_lines = <<>>
  /\ points_df = <<>>
  /\ dp_df = [columns |-> FALSE, rows |-> <<>>]
  /\ apc = "idle"
  /\ ai = 1
  /\ data_str = <<>>
  /\ tri_written = NotWritten

\* ------------------------------------------- Fuselage.generate_patches
\* A key is the tuple of the fields of its name: <<"cone_0", "n">> is
\* "cone_0_n".  A patch built from parameters is a base patch named after
\* its key.
NoseOptions == {"sharp-cone", "Sharp-Cone", "blunt"}
TailOptions == {"flat", "FLAT", "sharp-cone", "ogive"}

\* str.lower(), on the option values there are
Lower(v) ==
  CASE v = "FLAT" -> "flat"
    [] v = "Sharp-Cone" -> "sharp-cone"
    [] OTHER -> v

OffsetPatchFunction(patch) == [patch EXCEPT !.decs = Append(@, <<"Offset">>)]

\* self.patches[f"{stem}_n"] = <a patch>, and the e, s and w patches as
\* RotatedPatch of it by 90, 180 and 270 degrees
FourSides(d, stem) ==
  LET north == BasePatch(<<stem, "n">>)
      d1 == DictSet(d, BaseKey(<<stem, "n">>), north)
      d2 == DictSet(d1, BaseKey(<<stem, "e">>), RotatedPatch(north, 90, "default"))
      d3 == DictSet(d2, BaseKey(<<stem, "s">>), RotatedPatch(north, 180, "default"))
  IN  DictSet(d3, BaseKey(<<stem, "w">>), RotatedPatch(north, 270, "default"))

\* for i in range(4): self.patches[f"revolved_fuse_{i}"] = RevolvedPatch(...)
RevolvedFuse(d) ==
  LET d0 == DictSet(d, BaseKey(<<"revolved_fuse", "0">>), BasePatch(<<"revolved_fuse", "0">>))
      d1 == DictSet(d0, BaseKey(<<"revolved_fuse", "1">>), BasePatch(<<"revolved_fuse", "1">>))
      d2 == DictSet(d1, BaseKey(<<"revolved_fuse", "2">>), BasePatch(<<"revolved_fuse", "2">>))
  IN  DictSet(d2, BaseKey(<<"revolved_fuse", "3">>), BasePatch(<<"revolved_fuse", "3">>))

\* the swept fuselage and its two end sections (lines 35-42)
SweptFuse(d) ==
  LET d0 == DictSet(d, BaseKey(<<"swept_fuse">>), BasePatch(<<"swept_fuse">>))
      d1 == DictSet(d0, BaseKey(<<"swept_fuse_end", "0">>), BasePatch(<<"cross_sections", "0">>))
  IN  DictSet(d1, BaseKey(<<"swept_fuse_end", "1">>), BasePatch(<<"cross_sections", "-1">>))

\* the blunt tail (lines 135-176)
FlatTail(d) ==
  FourSides(DictSet(d, BaseKey(<<"tail_centre_patch">>), BasePatch(<<"tail_centre_patch">>)),
            "tail_edge_patch")

\* Fuselage(params): Component.__init__ has run, generate_patches is called
FuseInit ==
  /\ params \in [revolve_line : BOOLEAN, cross_sections : BOOLEAN, OFFSET : BOOLEAN,
                  FUSELAGE_NOSE_OPTION : NoseOptions, FUSELAGE_TAIL_OPTION : TailOptions]
  /\ fpc = "start"
  /\ fuse_error = None

\* The choice of the construction (lines 23-61)
PathStep ==
  /\ fpc = "start"
  /\ IF params.revolve_line
     THEN patches' = RevolvedFuse(patches) /\ fpc' = "offset"
     ELSE IF params.cross_sections
          THEN patches' = SweptFuse(patches) /\ fpc' = "offset"
          ELSE UNCHANGED patches /\ fpc' = "nose"
  /\ UNCHANGED <<params, fuse_error>>
  /\ UNCHANGED <<x_curv_func, y_curv_func, lastCall, before, calls, surfaces, mesh>>
  /\ UNCHANGED <<tessVars, sensVars, triVars, inertVars>>

\* The nose (lines 62-89)
NoseStep ==
  /\ fpc = "nose"
  /\ IF params.FUSELAGE_NOSE_OPTION = "sharp-cone"
     THEN /\ patches' = FourSides(patches, "cone_0")
          /\ fpc' = "body"
          /\ UNCHANGED fuse_error
     ELSE /\ fuse_error' = [none |-> FALSE, option |-> "FUSELAGE_NOSE_OPTION",
                            value |-> params.FUSELAGE_NOSE_OPTION]
          /\ fpc' = "raised"
          /\ UNCHANGED patches
  /\ UNCHANGED params
  /\ UNCHANGED <<x_curv_func, y_curv_func, lastCall, before, calls, surfaces, mesh>>
  /\ UNCHANGED <<tessVars, sensVars, triVars, inertVars>>

\* The two cylinders (lines 91-127)
BodyStep ==
  /\ fpc = "body"
  /\ patches' = FourSides(FourSides(patches, "cone_1"), "cone_2")
  /\ fpc' = "tail"
  /\ UNCHANGED <<params, fuse_error>>
  /\ UNCHANGED <<x_curv_func, y_curv_func, lastCall, before, calls, surfaces, mesh>>
  /\ UNCHANGED <<tessVars, sensVars, triVars, inertVars>>

\* The tail (lines 129-206)
TailStep ==
  /\ fpc = "tail"
  /\ IF Lower(params.FUSELAGE_TAIL_OPTION) = "flat"
     THEN /\ patches' = FlatTail(patches)
          /\ fpc' = "offset"
          /\ UNCHANGED fuse_error
     ELSE IF Lower(params.FUSELAGE_TAIL_OPTION) = "sharp-cone"
          THEN /\ patches' = FourSides(patches, "cone_3")
               /\ fpc' = "offset"
               /\ UNCHANGED fuse_error
          ELSE /\ fuse_error' = [none |-> FALSE, option |-> "FUSELAGE_TAIL_OPTION",
                                 value |-> params.FUSELAGE_TAIL_OPTION]
               /\ fpc' = "raised"
               /\ UNCHANGED patches
  /\ UNCHANGED params
  /\ UNCHANGED <<x_curv_func, y_curv_func, lastCall, before, calls, surfaces, mesh>>
  /\ UNCHANGED <<tessVars, sensVars, triVars, inertVars>>

\* The offset of every patch (lines 208-211)
OffsetStep ==
  /\ fpc = "offset"
  /\ patches' = IF params.OFFSET
                THEN [n \in 1..Len(patches) |->
                        [key |-> patches[n].key, patch |-> OffsetPatchFunction(patches[n].patch)]]
                ELSE patches
  /\ fpc' = "done"
  /\ UNCHANGED <<params, fuse_error>>
  /\ UNCHANGED <<x_curv_func, y_curv_func, lastCall, before, calls, surfaces, mesh>>
  /\ UNCHANGED <<tessVars, sensVars, triVars, inertVars>>

FuseNext == PathStep \/ NoseStep \/ BodyStep \/ TailStep \/ OffsetStep

\* no fuselage
FuseIdle ==
  /\ params = [revolve_line |-> FALSE, cross_sections |-> FALSE, OFFSET |-> FALSE,
               FUSELAGE_NOSE_OPTION |-> "sharp-cone", FUSELAGE_TAIL_OPTION |-> "flat"]
  /\ fpc = "idle"
  /\ fuse_error = None

\* -------------------------------------------- assess_inertial_properties
\* One coordinate of the centre of gravity and one entry of the inertia are
\* modelled: lines 178-194 act on every entry alike.  Arithmetic is exact;
\* a quotient is kept as a fraction [num, den].
Types == {"body", "wing"}

\* The meshes there are: [volume, cog, inertia] as get_mass_properties gives
\* them for unit density
MeshSet ==
  { [volume |-> 1, cog |-> 0, inertia |-> 2],
    [volume |-> 2, cog |-> 3, inertia |-> 1],
    [volume |-> 1, cog |-> -4, inertia |-> 0] }

\* mesh.get_mass_properties_with_density(density), of numpy-stl
get_mass_properties_with_density(stl, density) ==
  [volume |-> stl.volume, vmass |-> density * stl.volume,
   cog |-> stl.cog, inertia |-> density * stl.inertia]

\* component_densities[data["type"]]
DensityOf(densities, data) == densities[data.type]

\* A bug the shift could have: the mass left out of the parallel-axis term
ShiftedInertiaNoMass(inertia, m, cog, ccog) ==
  [num |-> inertia * ccog.den * ccog.den
             + (cog * ccog.den - ccog.num) * (cog * ccog.den - ccog.num),
   den |-> ccog.den * ccog.den]

\* I_adj = inertias[component] + m * r**2 with r = cgs[component] - composite_cog
ShiftedInertia(inertia, m, cog, ccog) ==
  [num |-> inertia * ccog.den * ccog.den
             + m * (cog * ccog.den - ccog.num) * (cog * ccog.den - ccog.num),
   den |-> ccog.den * ccog.den]

\* the sum of two fractions of the same denominator
FracAdd(a, b) == [num |-> a.num + b.num, den |-> b.den]

NoResult == [returned |-> FALSE]

InertInit ==
  /\ \E n \in 0..MaxBodies :
       \E ty \in [1..n -> Types], me \in [1..n -> MeshSet] :
         components = [k \in 1..n |-> [type |-> ty[k], mesh |-> me[k]]]
  /\ component_densities \in [Types -> {0, 1, 3}]
  /\ ipc = "properties"
  /\ ik = 1
  /\ volumes = <<>>
  /\ masses = <<>>
  /\ cgs = <<>>
  /\ inertias = <<>>
  /\ total_mass = 0
  /\ total_volume = 0
  /\ composite_cog = [num |-> 0, den |-> 1]
  /\ composite_inertia = [num |-> 0, den |-> 1]
  /\ inertial_result = NoResult

\* One iteration of the first loop (lines 165-175); after it, line 178
PropertiesStep ==
  /\ ipc = "properties"
  /\ IF ik <= Len(components)
     THEN LET data == components[ik]
              p == get_mass_properties_with_density(data.mesh,
                                                    DensityOf(component_densities, data))
          IN  /\ volumes' = Append(volumes, p.volume)
              /\ masses' = Append(masses, p.vmass)
              /\ cgs' = Append(cgs, p.cog)
              /\ inertias' = Append(inertias, p.inertia)
              /\ total_mass' = total_mass + p.vmass
              /\ total_volume' = total_volume + p.volume
              /\ ik' = ik + 1
              /\ UNCHANGED <<ipc, composite_cog>>
     ELSE /\ composite_cog' = [num |-> 0, den |-> 1]
          /\ ik' = 1
          /\ ipc' = "cog"
          /\ UNCHANGED <<volumes, masses, cgs, inertias, total_mass, total_volume>>
  /\ UNCHANGED <<components, component_densities, composite_inertia, inertial_result>>
  /\ UNCHANGED <<tessVars, compVars, sensVars, triVars, fuseVars>>

\* One iteration of the loop of lines 179-181
CogStep ==
  /\ ipc = "cog"
  /\ IF ik <= Len(components)
     THEN /\ composite_cog' = [composite_cog EXCEPT !.num = @ + masses[ik] * cgs[ik]]
          /\ ik' = ik + 1
          /\ UNCHANGED ipc
     ELSE /\ ipc' = "divide"
          /\ UNCHANGED <<composite_cog, ik>>
  /\ UNCHANGED <<components, component_densities, volumes, masses, cgs, inertias,
                 total_mass, total_volume, composite_inertia, inertial_result>>
  /\ UNCHANGED <<tessVars, compVars, sensVars, triVars, fuseVars>>

\* composite_cog *= 1 / total_mass (line 183).  total_mass is the int 0 when
\* no component was added, and 1 / 0 raises ZeroDivisionError; otherwise it
\* is a numpy float, and 1 / 0.0 is inf
DivideStep ==
  /\ ipc = "divide"
  /\ IF total_mass = 0 /\ Len(components) = 0
     THEN /\ ipc' = "raised"
          /\ UNCHANGED <<composite_cog, composite_inertia, ik>>
     ELSE /\ composite_cog' = [num |-> composite_cog.num, den |-> total_mass]
          \* composite_inertia = 0 (line 186), over the denominator of the terms
          /\ composite_inertia' = [num |-> 0, den |-> total_mass * total_mass]
          /\ ik' = 1
          /\ ipc' = "inertia"
  /\ UNCHANGED <<components, component_densities, volumes, masses, cgs, inertias,
                 total_mass, total_volume, inertial_result>>
  /\ UNCHANGED <<tessVars, compVars, sensVars, triVars, fuseVars>>

\* One iteration of the loop of lines 188-194; after it, the return
InertiaStep ==
  /\ ipc = "inertia"
  /\ IF ik <= Len(components)
     THEN /\ composite_inertia' =
               FracAdd(composite_inertia,
                       ShiftedInertia(inertias[ik], masses[ik], cgs[ik], composite_cog))
          /\ ik' = ik + 1
          /\ UNCHANGED <<ipc, inertial_result>>
     ELSE /\ inertial_result' = [returned |-> TRUE,
                                 total_volume |-> total_volume,
                                 total_mass |-> total_mass,
                                 composite_cog |-> composite_cog,
                                 composite_inertia |-> composite_inertia]
          /\ ipc' = "done"
          /\ UNCHANGED <<composite_inertia, ik>>
  /\ UNCHANGED <<components, component_densities, volumes, masses, cgs, inertias,
                 total_mass, total_volume, composite_cog>>
  /\ UNCHANGED <<tessVars, compVars, sensVars, triVars, fuseVars>>

InertNext == PropertiesStep \/ CogStep \/ DivideStep \/ InertiaStep

\* assess_inertial_properties not called
InertIdle ==
  /\ components = <<>>
  /\ component_densities = [t \in Types |-> 0]
  /\ ipc = "idle"
  /\ ik = 1
  /\ volumes = <<>>
  /\ masses = <<>>
  /\ cgs = <<>>
  /\ inertias = <<>>
  /\ total_mass = 0
  /\ total_volume = 0
  /\ composite_cog = [num |-> 0, den |-> 1]
  /\ composite_inertia = [num |-> 0, den |-> 1]
  /\ inertial_result = NoResult

\* ------------------------------------------------------------ tessellator
TessInit ==
  /\ triangles_per_edge \in (1..MaxN) \cup {NoResolution}
  /\ mirror_y \in BOOLEAN
  /\ re_evaluate_centroid \in BOOLEAN
  /\ flip_faces \in BOOLEAN
  /\ surf \in Surfaces
  /\ tpc = "start"
  /\ ti = 0
  /\ tj = 0
  /\ tr = Linspace(0)
  /\ vertices = <<>>
  /\ faces = <<>>
  /\ evaluated = FALSE

\* The check of the resolution and the allocation of the vertex array
\* (lines 29-43)
ResolutionStep ==
  /\ tpc = "start"
  /\ IF ResolutionMissing(triangles_per_edge)
     THEN /\ tpc' = "raised"
          /\ UNCHANGED vertices
     ELSE /\ vertices' = [k \in 0..(VertexCount(triangles_per_edge) - 1) |-> Empty]
          /\ tpc' = "vertices"
  /\ UNCHANGED <<triangles_per_edge, mirror_y, re_evaluate_centroid, flip_faces, surf,
                 ti, tj, tr, faces, evaluated>>
  /\ UNCHANGED <<compVars, sensVars, triVars, inertVars, fuseVars>>

\* One iteration of the body of the vertex loops (lines 44-87)
VertexStep ==
  /\ tpc = "vertices"
  /\ evaluated' = TRUE
  /\ LET N == triangles_per_edge
         r == IF tj = 0 THEN Linspace(ti) ELSE tr      \* for i, r in enumerate(r_list)
         pos == Surface(surf, r, Linspace(tj))
         v1 == [vertices EXCEPT ![CornerIndex(N, ti, tj)] = CornerVertex(pos, mirror_y)]
         t == TryCentroid(N, mirror_y, re_evaluate_centroid, surf, ti, tj, r, v1)
     IN  IF Raises(surf, N, r, Linspace(tj))
         THEN \* line 47 is outside the try block: the call raises
              /\ tpc' = "raised"
              /\ UNCHANGED <<vertices, tr, ti, tj>>
         ELSE /\ vertices' = t.verts
              /\ tr' = t.r
              /\ IF tj < N
                 THEN /\ tj' = tj + 1
                      /\ UNCHANGED <<ti, tpc>>
                 ELSE IF ti < N
                      THEN /\ ti' = ti + 1
                           /\ tj' = 0
                           /\ UNCHANGED tpc
                      ELSE /\ ti' = 0
                           /\ tj' = 0
                           /\ tpc' = "faces"
  /\ UNCHANGED <<triangles_per_edge, mirror_y, re_evaluate_centroid, flip_faces, surf, faces>>
  /\ UNCHANGED <<compVars, sensVars, triVars, inertVars, fuseVars>>

\* One iteration of the body of the face loops (lines 91-108)
FaceStep ==
  /\ tpc = "faces"
  /\ LET N == triangles_per_edge
     IN  /\ faces' = faces \o CellFaces(N, ti, tj, mirror_y \/ flip_faces)
         /\ IF tj < N - 1
            THEN /\ tj' = tj + 1
                 /\ UNCHANGED <<ti, tpc>>
            ELSE IF ti < N - 1
                 THEN /\ ti' = ti + 1
                      /\ tj' = 0
                      /\ UNCHANGED tpc
                 ELSE /\ ti' = 0
                      /\ tj' = 0
                      /\ tpc' = "done"
  /\ UNCHANGED <<triangles_per_edge, mirror_y, re_evaluate_centroid, flip_faces, surf,
                 tr, vertices, evaluated>>
  /\ UNCHANGED <<compVars, sensVars, triVars, inertVars, fuseVars>>

TessNext == ResolutionStep \/ VertexStep \/ FaceStep

InitTess == TessInit /\ CompIdle /\ SensIdle /\ TriIdle /\ InertIdle /\ FuseIdle

SpecTess == InitTess /\ [][TessNext]_vars

InitComp == CompInit /\ TessIdle /\ SensIdle /\ TriIdle /\ InertIdle /\ FuseIdle

SpecComp == InitComp /\ [][CompNext]_vars

InitSens == SensInit /\ TessIdle /\ CompIdle /\ TriIdle /\ InertIdle /\ FuseIdle

SpecSens == InitSens /\ [][SensNext]_vars

InitTri == TriInit /\ TessIdle /\ CompIdle /\ SensIdle /\ InertIdle /\ FuseIdle

SpecTri == InitTri /\ [][TriNext]_vars

InitInert == InertInit /\ TessIdle /\ CompIdle /\ SensIdle /\ TriIdle /\ FuseIdle

SpecInert == InitInert /\ [][InertNext]_vars

InitFuse == FuseInit /\ CompIdle /\ TessIdle /\ SensIdle /\ TriIdle /\ InertIdle

SpecFuse == InitFuse /\ [][FuseNext]_vars

\* =================================================================== claims
\* ------------------------------------------------------------ tessellator
TessDone == tpc = "done"

\* the place of cell (i, j)'s k-th face in the face list (i is the outer loop)
FaceAt(N, i, j, k) == faces[(i * N + j) * 4 + k]

\* C1: for every resolution N >= 1 and every flag setting the finished
\* tessellation has exactly (N+1)^2 + N^2 vertices and 4*N^2 faces.
C1_Counts ==
  TessDone =>
    LET N == triangles_per_edge
    IN  /\ DOMAIN vertices = 0..((N + 1) * (N + 1) + N * N - 1)
        /\ Cardinality(DOMAIN vertices) = (N + 1) * (N + 1) + N * N
        /\ Len(faces) = 4 * N * N

C1_Witness == TessDone /\ triangles_per_edge = 2 /\ Len(faces) = 16

\* the corner indices of cell (i, j), as grid points
CellCorners(N, i, j) ==
  { <<a, b>> \in (0..N) \X (0..N) : a \in {i, i + 1} /\ b \in {j, j + 1} }

\* the edges of cell (i, j): pairs of corners that differ in one coordinate
CellEdges(N, i, j) ==
  { {c[2] * (N + 1) + c[1], d[2] * (N + 1) + d[1]} :
      <<c, d>> \in { e \in CellCorners(N, i, j) \X CellCorners(N, i, j) :
                      (e[1][1] = e[2][1]) # (e[1][2] = e[2][2]) } }

FaceSet(f) == {f[1], f[2], f[3]}

\* C2: every face index is within [0, (N+1)^2 + N^2); the four faces of cell
\* (i, j) each hold the cell's own centroid index and one edge of the cell
\* (two grid-adjacent corners), and each of the four edges is used by exactly
\* one face.
C2_FaceStructure ==
  TessDone =>
    LET N == triangles_per_edge
        count == (N + 1) * (N + 1) + N * N
    IN  /\ \A n \in 1..Len(faces) : \A c \in 1..3 : faces[n][c] >= 0 /\ faces[n][c] < count
        /\ \A i \in 0..(N - 1), j \in 0..(N - 1) :
             LET pzz == (N + 1) * (N + 1) + j * N + i
             IN  /\ \A k \in 1..4 :
                      /\ Cardinality(FaceSet(FaceAt(N, i, j, k))) = 3
                      /\ pzz \in FaceSet(FaceAt(N, i, j, k))
                      /\ FaceSet(FaceAt(N, i, j, k)) \ {pzz} \in CellEdges(N, i, j)
                 /\ \A e \in CellEdges(N, i, j) :
                      Cardinality({k \in 1..4 : FaceSet(FaceAt(N, i, j, k)) \ {pzz} = e}) = 1

C2_Witness ==
  /\ TessDone
  /\ triangles_per_edge = 2
  /\ FaceAt(2, 1, 0, 1) = <<1, 2, 10>>

\* the odd permutations of a triple
Reversed(f) == { <<f[2], f[1], f[3]>>, <<f[1], f[3], f[2]>>, <<f[3], f[2], f[1]>> }

\* the fan of cell (i, j) with neither flag set, as lines 105-108 list it
UnflippedFan(N, i, j) ==
  << <<j * (N + 1) + i, j * (N + 1) + i + 1, (N + 1) * (N + 1) + j * N + i>>,
     <<j * (N + 1) + i + 1, (j + 1) * (N + 1) + i + 1, (N + 1) * (N + 1) + j * N + i>>,
     <<(j + 1) * (N + 1) + i + 1, (j + 1) * (N + 1) + i, (N + 1) * (N + 1) + j * N + i>>,
     <<(j + 1) * (N + 1) + i, j * (N + 1) + i, (N + 1) * (N + 1) + j * N + i>> >>

\* C3: with neither flag the run lists the unflipped fan; with mirror_y or
\* flip_faces set every face lists the same three indices as the face of the
\* same cell and fan position of the unflipped tessellation, in reversed
\* orientation (an odd permutation of the triple).
C3_FlipReverses ==
  TessDone =>
    LET N == triangles_per_edge
    IN  \A i \in 0..(N - 1), j \in 0..(N - 1), k \in 1..4 :
          IF mirror_y \/ flip_faces
          THEN FaceAt(N, i, j, k) \in Reversed(UnflippedFan(N, i, j)[k])
          ELSE FaceAt(N, i, j, k) = UnflippedFan(N, i, j)[k]

C3_Witness ==
  /\ TessDone
  /\ triangles_per_edge = 2
  /\ flip_faces /\ ~mirror_y
  /\ FaceAt(2, 1, 1, 3) = <<8, 12, 7>>

\* C4: with mirror_y false, the corner vertex at index j*(N+1)+i is the
\* surface evaluated at (r_i, s_j) = (i/N, j/N), for all i, j in 0..N.
C4_CornersExact ==
  (TessDone /\ ~mirror_y) =>
    LET N == triangles_per_edge
    IN  \A i \in 0..N, j \in 0..N :
          LET pos == Surface(surf, 2 * i, 2 * j)
          IN  vertices[j * (N + 1) + i] = <<Quarter * pos[1], Quarter * pos[2], Quarter * pos[3]>>

\* the sum of the surface at the four corners of cell (i, j)
CornerSum(id, i, j, c) ==
  Surface(id, 2 * i, 2 * j)[c] + Surface(id, 2 * i + 2, 2 * j)[c]
    + Surface(id, 2 * i, 2 * j + 2)[c] + Surface(id, 2 * i + 2, 2 * j + 2)[c]

\* C5 as stated: in bilinear mode the centroid vertex of cell (i, j) is the
\* average of the surface at the cell's four corners (whatever mirror_y is).
C5_Original ==
  (TessDone /\ ~re_evaluate_centroid) =>
    LET N == triangles_per_edge
    IN  \A i \in 0..(N - 1), j \in 0..(N - 1) :
          \A c \in 1..3 :
            vertices[(N + 1) * (N + 1) + j * N + i][c] * 4 = Quarter * CornerSum(surf, i, j, c)

\* C5 amended: in bilinear mode the centroid vertex of cell (i, j) is the
\* average of the surface at the cell's four corners, with the y coordinate
\* negated when mirror_y is set; the flat unit square at N = 2 has the
\* centroid of cell (0, 0) at (0.25, 0.25, 0).
C5_BilinearCentroid ==
  (TessDone /\ ~re_evaluate_centroid) =>
    LET N == triangles_per_edge
    IN  /\ \A i \in 0..(N - 1), j \in 0..(N - 1) :
             LET v == vertices[(N + 1) * (N + 1) + j * N + i]
             IN  /\ v # Empty
                 /\ v[1] * 4 = Quarter * CornerSum(surf, i, j, 1)
                 /\ v[2] * 4 = (IF mirror_y THEN -1 ELSE 1) * Quarter * CornerSum(surf, i, j, 2)
                 /\ v[3] * 4 = Quarter * CornerSum(surf, i, j, 3)
        \* coordinates are numerators over 2*N = 4, stored times Quarter:
        \* 0.25 is 1/4 of a unit of 1/4, stored as 4
        /\ (N = 2 /\ surf = "flat") => vertices[9] = <<4, IF mirror_y THEN -4 ELSE 4, 0>>

C5_Witness ==
  /\ TessDone
  /\ ~re_evaluate_centroid
  /\ mirror_y
  /\ triangles_per_edge = 2
  /\ surf = "saddle"
  /\ vertices[12] = <<12, -16, 36>>

\* -------------------------------------------------------------- Component
ReflectCalled(append) == lastCall.op = "reflect" /\ lastCall.append = append

\* C6 as stated: reflect(axis, append=True) doubles the collection: every
\* patch present before is still there, unchanged, under its key, and each
\* has a new mirrored patch under the key '<original>_mirrored'.
C6_AppendDoubles ==
  ReflectCalled(TRUE) =>
    /\ Len(patches) = 2 * Len(before)
    /\ \A n \in 1..Len(before) :
         /\ \E m \in 1..Len(patches) :
              patches[m] = before[n]
         /\ \E m \in 1..Len(patches) :
              /\ patches[m].key = [name |-> before[n].key.name,
                                   mirrored |-> before[n].key.mirrored + 1]
              /\ patches[m].patch = [base |-> before[n].patch.base,
                                     decs |-> before[n].patch.decs
                                                \o << <<"Mirrored", lastCall.axis>> >>]

\* C7: reflect(axis, append=False) leaves the size unchanged and replaces the
\* whole collection: entry n is the MirroredPatch wrapping the previous entry
\* n, keyed '<original>_mirrored' (the previous insertion order), and every
\* entry is a MirroredPatch (no un-mirrored original remains).
C7_ReplaceMirrors ==
  ReflectCalled(FALSE) =>
    /\ Len(patches) = Len(before)
    /\ \A n \in 1..Len(before) :
         /\ patches[n].key = [name |-> before[n].key.name,
                              mirrored |-> before[n].key.mirrored + 1]
         /\ patches[n].patch = [base |-> before[n].patch.base,
                                decs |-> before[n].patch.decs
                                           \o << <<"Mirrored", lastCall.axis>> >>]
    /\ \A n \in 1..Len(patches) :
         /\ Len(patches[n].patch.decs) >= 1
         /\ patches[n].patch.decs[Len(patches[n].patch.decs)][1] = "Mirrored"

C7_Witness ==
  /\ ReflectCalled(FALSE)
  /\ Len(before) >= 2
  /\ before[2].key.mirrored = 1
  /\ Len(patches) = Len(before)
  /\ patches[2].key.mirrored = 2

\* ------------------------------------------------------ SensitivityStudy
\* C8 as stated: the result dGdP returns and stores in self.sensitivities
\* holds, for each component, one table per (component mesh, parameter),
\* for every parameter of the dictionary.
C8_AllParameters ==
  spc = "done" =>
    /\ ~self_sensitivities.none
    /\ \A c \in 1..Len(nominal_meshes), p \in 1..Len(parameter_dict) :
         \A ix \in 1..Len(nominal_meshes[c].meshes) :
           \E n \in 1..Len(self_sensitivities.dict) :
             /\ self_sensitivities.dict[n].component = nominal_meshes[c].component
             /\ \E t \in 1..Len(self_sensitivities.dict[n].tables) :
                  /\ self_sensitivities.dict[n].tables[t].parameter = parameter_dict[p].name
                  /\ self_sensitivities.dict[n].tables[t].component
                       = <<nominal_meshes[c].component, ix - 1>>

\* C9 as stated: when the perturbed vehicle differs from the nominal one in
\* the face count of a mesh or in the number of meshes of a component, the
\* computation fails (it does not return), and no table is ever made from
\* two meshes of different face counts.
C9_MismatchFails ==
  /\ spc = "done" => ~mismatch
  /\ \A n \in 1..Len(sensitivities) :
       \A t \in 1..Len(sensitivities[n].tables) :
         sensitivities[n].tables[t].faces[1] = sensitivities[n].tables[t].faces[2]

\* ------------------------------------------- append_sensitivities_to_tri
\* the stored points: the lines of the points text that hold a point
StoredOf(lines) == SelectSeq(lines, LAMBDA l : l # Blank)

\* the rows of all the tables given, in concatenation order
RECURSIVE AllRows(_)
AllRows(files) == IF files = <<>> THEN <<>> ELSE files[1] \o AllRows(Tail(files))

Near(a, b) == a - b < Tolerance /\ b - a < Tolerance

\* the places of the rows that match a point on x, y and z
MatchesOf(point, rows) ==
  { n \in 1..Len(rows) :
      Near(point[1], rows[n].x) /\ Near(point[2], rows[n].y) /\ Near(point[3], rows[n].z) }

FirstOf(S) == CHOOSE n \in S : \A m \in S : n <= m

\* the derivative triple the claim names for a point
TripleOf(point, rows) ==
  IF MatchesOf(point, rows) = {} THEN <<0, 0, 0>>
  ELSE LET r == rows[FirstOf(MatchesOf(point, rows))]
       IN  <<r.dxdP, r.dydP, r.dzdP>>

Small(v) == IF v < RoundOff /\ -v < RoundOff THEN 0 ELSE v

\* C10 as stated, for the calls that name at least one sensitivity file: one
\* triple per stored point, in the stored order: the (dxdP, dydP, dzdP) of
\* the first row, in concatenation order, within 1e-5 on x, y and z, and
\* (0, 0, 0) when no row matches; the call never raises.
C10_Original ==
  /\ dp_files # <<>> => apc # "raised"
  /\ (apc = "done" /\ dp_files # <<>>) =>
       /\ Len(tri_written) = Len(StoredOf(tri_lines))
       /\ \A n \in 1..Len(tri_written) :
            tri_written[n] = TripleOf(StoredOf(tri_lines)[n], AllRows(dp_files))

\* C10 amended: given at least one sensitivity table, the call does not
\* raise and writes one triple per stored point, in the stored order: the
\* (dxdP, dydP, dzdP) of the first row, in concatenation order, within 1e-5
\* on x, y and z, with every component of magnitude below 1e-8 replaced by
\* 0, and (0, 0, 0) when no row matches.
C10_Reattach ==
  /\ dp_files # <<>> => apc # "raised"
  /\ apc = "done" =>
       /\ Len(tri_written) = Len(StoredOf(tri_lines))
       /\ \A n \in 1..Len(tri_written) :
            LET t == TripleOf(StoredOf(tri_lines)[n], AllRows(dp_files))
            IN  tri_written[n] = <<Small(t[1]), Small(t[2]), Small(t[3])>>

C10_Witness ==
  /\ apc = "done"
  /\ dp_files = <<SensitivityFile(2), SensitivityFile(1)>>
  /\ points_df = << <<10, 0, 0>>, <<20, 5, 5>>, <<0, 0, 0>> >>
  /\ tri_written = << <<0, 0, 8>>, <<0, 0, 0>>, <<7, 7, 7>> >>

\* ---- assess_inertial_properties
InertDone == ipc = "done"

\* C11: whenever the component masses sum to zero, the call ends in an error
\* and never returns a centre of gravity or inertia obtained by dividing by
\* zero: a call that returned had a non-zero total mass and finite results.
C11_ZeroMassGuarded ==
  inertial_result.returned =>
    /\ total_mass # 0
    /\ inertial_result.composite_cog.den # 0
    /\ inertial_result.composite_inertia.den # 0

RECURSIVE SumTo(_, _)
SumTo(f, n) == IF n = 0 THEN 0 ELSE f[n] + SumTo(f, n - 1)

\* the mass of component k: the density of its type times its volume
MassOf(k) == component_densities[components[k].type] * components[k].mesh.volume

\* the inertia of component k for the density of its type
InertiaOf(k) == component_densities[components[k].type] * components[k].mesh.inertia

SameFraction(a, b) == a.den # 0 /\ b.den # 0 /\ a.num * b.den = b.num * a.den

\* C12: with a non-zero total mass the call returns the sum of the volumes,
\* the sum of the masses, the mass-weighted mean of the centres of gravity,
\* and the sum of the inertias shifted to that mean by the parallel-axis
\* term, each mass and inertia taken with the density of the component's
\* type.  The right-hand sides are sums over the components, the same for
\* every order, and every order of the components is an input.
C12_Aggregates ==
  (InertDone /\ total_mass # 0) =>
    LET n == Len(components)
        V == SumTo([k \in 1..n |-> components[k].mesh.volume], n)
        M == SumTo([k \in 1..n |-> MassOf(k)], n)
        S == SumTo([k \in 1..n |-> MassOf(k) * components[k].mesh.cog], n)
        J == SumTo([k \in 1..n |->
                     InertiaOf(k) * M * M
                       + MassOf(k) * (components[k].mesh.cog * M - S)
                                   * (components[k].mesh.cog * M - S)], n)
    IN  /\ inertial_result.returned
        /\ inertial_result.total_volume = V
        /\ inertial_result.total_mass = M
        /\ SameFraction(inertial_result.composite_cog, [num |-> S, den |-> M])
        /\ SameFraction(inertial_result.composite_inertia, [num |-> J, den |-> M * M])

\* two components of different types, densities, masses and centres of
\* gravity were aggregated
C12_Witness ==
  /\ InertDone
  /\ Len(components) = 2
  /\ components[1].type # components[2].type
  /\ component_densities["body"] = 3
  /\ component_densities["wing"] = 1
  /\ components[1].mesh.cog # components[2].mesh.cog
  /\ composite_cog.num # 0
  /\ composite_inertia.num > InertiaOf(1) * total_mass * total_mass
                             + InertiaOf(2) * total_mass * total_mass

\* ---- parametricSurfce2stl: errors and exact centroids
\* C13: with triangles_per_edge None the call raises before the surface is
\* evaluated once and before a vertex or a face is made.
C13_NoResolutionRaises ==
  triangles_per_edge = NoResolution =>
    /\ tpc \in {"start", "raised"}
    /\ ~evaluated
    /\ vertices = <<>>
    /\ faces = <<>>

C13_Witness == triangles_per_edge = NoResolution /\ tpc = "raised"

\* C14: after the call returns, every one of the (N+1)^2 + N^2 vertex slots
\* has been written, also when a surface evaluation for a centroid raised.
C14_AllSlotsWritten ==
  TessDone =>
    \A k \in 0..(VertexCount(triangles_per_edge) - 1) : vertices[k] # Empty

\* C15: in exact centroid mode the centroid vertex of cell (i, j) is the
\* surface at the cell's parameter midpoint ((r_i + r_{i+1})/2,
\* (s_j + s_{j+1})/2), in the mesh frame (y negated under mirror_y), for
\* the surfaces that are defined everywhere.
C15_ExactCentroid ==
  (TessDone /\ re_evaluate_centroid /\ surf # "pole") =>
    LET N == triangles_per_edge
    IN  \A i \in 0..(N - 1), j \in 0..(N - 1) :
          vertices[(N + 1) * (N + 1) + j * N + i]
            = CentroidVertex(Surface(surf, 2 * i + 1, 2 * j + 1), mirror_y, Quarter)

\* ---- Component.surface and Component.to_stl
\* the number of MirroredPatch wrappers of a patch
MirrorCount(patch) == Cardinality({n \in 1..Len(patch.decs) : patch.decs[n][1] = "Mirrored"})

\* C16: surface() tessellates a patch with flipped winding if and only if
\* the patch holds an odd number of MirroredPatch wrappers.
C16_FlipIffOddMirrors ==
  ~surfaces.none =>
    \A n \in 1..Len(surfaces.dict) :
      surfaces.dict[n].mesh.flip_faces
        <=> (MirrorCount(surfaces.dict[n].mesh.parametric_surface) % 2 = 1)

\* C17: the mesh to_stl exports is the concatenation of one tessellated mesh
\* per patch of the current patch collection, in insertion order, also when
\* a transform came after an earlier surface() or to_stl() call.
C17_ExportIsCurrent ==
  (lastCall.op = "to_stl" /\ ~lastCall.raised) =>
    /\ ~mesh.none
    /\ Len(mesh.data) = Len(patches)
    /\ \A n \in 1..Len(patches) :
         /\ mesh.data[n].parametric_surface = patches[n].patch
         /\ mesh.data[n].triangles_per_edge = StlResolution

\* ---- Fuselage.generate_patches
Legacy == ~params.revolve_line /\ ~params.cross_sections

\* C18: on the legacy path an unsupported nose or tail option value never
\* lets the call finish; the error raised names the option and the
\* offending value, and the patch collection is as it was before the call
\* (empty): no part of the patches has been added.
C18_AtomicFailure ==
  /\ (fpc = "done" /\ Legacy) =>
       /\ params.FUSELAGE_NOSE_OPTION = "sharp-cone"
       /\ params.FUSELAGE_TAIL_OPTION \in {"flat", "FLAT", "sharp-cone"}
  /\ fpc = "raised" =>
       /\ Legacy
       /\ ~fuse_error.none
       /\ \/ /\ fuse_error.option = "FUSELAGE_NOSE_OPTION"
             /\ fuse_error.value = params.FUSELAGE_NOSE_OPTION
          \/ /\ fuse_error.option = "FUSELAGE_TAIL_OPTION"
             /\ fuse_error.value = params.FUSELAGE_TAIL_OPTION
       /\ patches = <<>>

====
